---- MODULE Spec2Model ----
(***************************************************************************)
(* Verification model of the lens-undistortion engines:                    *)
(*   src/src/core/gpu/wgpu.rs                  (WgpuWrapper, ADAPTER)      *)
(*   src/src/core/undistortion/cpu_undistort.rs (COEFFS, undistort_point,  *)
(*                                  undistort_image_cpu, undistort_points) *)
(*                                                                         *)
(* The module holds several specifications over one set of variables:      *)
(*   SpecNew    - threads running WgpuWrapper::new concurrently            *)
(*   SpecGpu    - one constructed engine serving undistort_image calls     *)
(*   SpecCpu    - one undistort_image_cpu call, its row tasks interleaved  *)
(*   SpecPoints - one undistort_points call                                *)
(*   SpecSample - the split of a coordinate and the coefficient fetch      *)
(*   SpecEdge   - the edge policy applied to one sample position           *)
(*   SpecTaps   - the tap loops of one interpolated sample                 *)
(* Each specification leaves the variables of the others untouched.        *)
(***************************************************************************)
EXTENDS Integers, Sequences, FiniteSets, TLC

VARIABLES
    \* ---- WgpuWrapper::new / ADAPTER (SpecNew) ----
    ADAPTER,        \* content of the global RwLock<Option<Adapter>>: "None" or "Some"
    rwReaders,      \* number of read guards of the ADAPTER lock currently held
    adapterWrites,  \* history: how many times line 66 stored an adapter
    npc,            \* position of each thread inside WgpuWrapper::new
    nargs,          \* the arguments each thread passed to WgpuWrapper::new
    nresult         \* what WgpuWrapper::new returned to each thread

newVars == <<ADAPTER, rwReaders, adapterWrites, npc, nargs, nresult>>

VARIABLES
    \* ---- one WgpuWrapper and its undistort_image calls (SpecGpu) ----
    eng,            \* the immutable fields of the engine and the arguments it was built from
    globals,        \* self.globals (host copy)
    globals_buffer, \* device copy of the globals, as last uploaded
    params_buffer,  \* device storage buffer of the parameter rows
    in_pixels,      \* input texture, one byte row per texture row
    out_pixels,     \* output texture (render target)
    staging_buffer, \* host-readable staging buffer, rows of padded_out_stride bytes
    staging_map,    \* mapping state of the staging buffer: "unmapped" or "mapped"
    gpc,            \* position inside undistort_image: "idle", "submitted", "mapped"
    pixels,         \* argument buffers of the current (or last) call
    output_pixels,
    itm,            \* itm.params: the sequence of 9-float parameter rows
    out_entry,      \* history: output_pixels as passed in at call entry
    copy_pending,   \* rows of the readback copy not yet executed
    steps,          \* history: device and buffer operations of the current call, in order
    outcome,        \* "none", "running", "skipped", "map_failed", "ok"
    calls,          \* number of undistort_image calls made
    skips           \* history: how many of them were skipped by a size check

engineVars == <<globals, globals_buffer, params_buffer, in_pixels, out_pixels,
                staging_buffer, staging_map>>

gpuVars == <<eng, engineVars, gpc, pixels, output_pixels, itm, out_entry,
             copy_pending, steps, outcome, calls, skips>>

VARIABLES
    \* ---- one undistort_image_cpu call (SpecCpu) ----
    cin,            \* the arguments of the call
    cout,           \* out_pixels
    row_next,       \* for each row task, the index of its next pixel chunk
    branch_log,     \* history: which branch wrote each output pixel
    pix_log         \* history: the position and the parameter rows each pixel used

cpuVars == <<cin, cout, row_next, branch_log, pix_log>>

VARIABLES
    \* ---- one undistort_points call (SpecPoints) ----
    pin,            \* the arguments of the call
    pout,           \* the elements produced so far
    pidx,           \* index of the next point the iterator yields
    pdone           \* the call has returned pout

pointsVars == <<pin, pout, pidx, pdone>>

VARIABLES
    \* ---- the coordinate split and coefficient fetch (SpecSample) ----
    sk,             \* the kernel size I
    sc0,            \* a fixed-point coordinate sx0 or sy0
    sfetch          \* what lines 246-250 computed from it, <<>> before

sampleVars == <<sk, sc0, sfetch>>

VARIABLES
    \* ---- the edge policy of lines 222-238 (SpecEdge) ----
    ein,            \* width, height and parameter rows of the call
    ept,            \* the sample position distort_point returned
    eout            \* the position after the edge policy, <<>> before

edgeVars == <<ein, ept, eout>>

VARIABLES
    \* ---- the tap loops of lines 252-273 (SpecTaps) ----
    tin,            \* I, the frame layout, sx0, sy0 and the build's overflow checks
    tpos,           \* <<yp, xp>> of the next tap
    tsrc,           \* src_index
    treads,         \* history: the source reads made, with their byte ranges
    tbg,            \* history: the taps that took the background colour
    tout            \* "running", "done" or "panic"

tapVars == <<tin, tpos, tsrc, treads, tbg, tout>>

vars == <<newVars, gpuVars, cpuVars, pointsVars, sampleVars, edgeVars, tapVars>>

\* what each specification leaves alone
notNewVars == <<gpuVars, cpuVars, pointsVars, sampleVars, edgeVars, tapVars>>
notGpuVars == <<newVars, cpuVars, pointsVars, sampleVars, edgeVars, tapVars>>
notCpuVars == <<newVars, gpuVars, pointsVars, sampleVars, edgeVars, tapVars>>
notPointsVars == <<newVars, gpuVars, cpuVars, sampleVars, edgeVars, tapVars>>
notSampleVars == <<newVars, gpuVars, cpuVars, pointsVars, edgeVars, tapVars>>
notEdgeVars == <<newVars, gpuVars, cpuVars, pointsVars, sampleVars, tapVars>>
notTapVars == <<newVars, gpuVars, cpuVars, pointsVars, sampleVars, edgeVars>>

NoCall == [I |-> 0]

CpuIdle ==
    /\ cin = NoCall
    /\ cout = <<>>
    /\ row_next = <<>>
    /\ branch_log = <<>>
    /\ pix_log = <<>>

PointsIdle ==
    /\ pin = [entry |-> "none"]
    /\ pout = <<>>
    /\ pidx = 0
    /\ pdone = FALSE

SampleIdle ==
    /\ sk = 0
    /\ sc0 = 0
    /\ sfetch = <<>>

EdgeIdle ==
    /\ ein = NoCall
    /\ ept = <<>>
    /\ eout = <<>>

TapsIdle ==
    /\ tin = NoCall
    /\ tpos = <<0, 0>>
    /\ tsrc = 0
    /\ treads = {}
    /\ tbg = {}
    /\ tout = "none"

OthersIdle == CpuIdle /\ PointsIdle /\ SampleIdle /\ EdgeIdle /\ TapsIdle

-----------------------------------------------------------------------------
(* Bounds *)

NumThreads == 2

Threads == 1..NumThreads

\* undistort_image calls made on the engine in one behaviour
MaxCalls == 2

\* output rows of the undistort_image_cpu calls
CpuRows == 3

\* longest point batch handed to undistort_points
MaxPoints == 3

\* fixed-point coordinates -SampleRange..SampleRange are split and fetched
SampleRange == 40

\* distinct frame contents and parameter contents handed to a call
Seeds == {0, 1}

\* sample positions from -2.0 to EdgeSpan, in quarter pixels, meet the edge policy
EdgeSpan == 9

\* integer tap coordinates sx, sy from -8 to MaxTapCoord start the tap loops
MaxTapCoord == 4

-----------------------------------------------------------------------------
(* WgpuWrapper::new, lines 71-83 and 205-207; initialize_context, 53-69 *)

\* wgpu.rs:74 limits
MinHeight == 4
MinStride == 1
MaxWidth == 8192

NoArgs == [width |-> 0, height |-> 0, stride |-> 0,
           output_width |-> 0, output_height |-> 0, output_stride |-> 0]

\* Argument tuples tried by the threads: one fully valid request on the
\* boundaries of line 74, each single violation of line 74 with all other
\* arguments valid, and a request violating everything at once.
NewArgs ==
    LET ok == [width |-> MaxWidth, height |-> MinHeight, stride |-> MinStride,
               output_width |-> MaxWidth, output_height |-> MinHeight, output_stride |-> 2]
    IN { ok,
         [ok EXCEPT !.height = MinHeight - 1],
         [ok EXCEPT !.output_height = MinHeight - 1],
         [ok EXCEPT !.stride = MinStride - 1],
         [ok EXCEPT !.width = MaxWidth + 1],
         [ok EXCEPT !.output_width = MaxWidth + 1],
         [width |-> MaxWidth + 1, height |-> 0, stride |-> 0,
          output_width |-> MaxWidth + 1, output_height |-> 0, output_stride |-> 0] }

\* variant of RejectedDims that forgets the stride check
RejectedDims_NoStride(a) ==
    \/ a.height < MinHeight
    \/ a.output_height < MinHeight
    \/ a.width > MaxWidth
    \/ a.output_width > MaxWidth

\* wgpu.rs:74  the early return of WgpuWrapper::new
RejectedDims(a) ==
    \/ a.height < MinHeight
    \/ a.output_height < MinHeight
    \/ a.stride < MinStride
    \/ a.width > MaxWidth
    \/ a.output_width > MaxWidth

\* wgpu.rs:71-78  entry of new: the dimension check
NewBegin(t) ==
    /\ npc[t] = "start"
    /\ \E a \in NewArgs :
        /\ nargs' = [nargs EXCEPT ![t] = a]
        /\ IF RejectedDims(a)
             THEN /\ nresult' = [nresult EXCEPT ![t] = "None"]
                  /\ npc' = [npc EXCEPT ![t] = "done"]
             ELSE /\ npc' = [npc EXCEPT ![t] = "check"]
                  /\ UNCHANGED nresult
    /\ UNCHANGED <<ADAPTER, rwReaders, adapterWrites, notNewVars>>

\* wgpu.rs:80-81  `ADAPTER.read().is_some()`: the read guard is a temporary,
\* released at the end of the statement, before initialize_context is called.
NewCheckAdapter(t) ==
    /\ npc[t] = "check"
    /\ npc' = [npc EXCEPT ![t] = IF ADAPTER = "Some" THEN "lock" ELSE "init"]
    /\ UNCHANGED <<ADAPTER, rwReaders, adapterWrites, nargs, nresult, notNewVars>>

\* wgpu.rs:54-60  request_adapter; `?` returns None when no adapter is found
InitRequestAdapter(t) ==
    /\ npc[t] = "init"
    /\ \E found \in BOOLEAN :
        npc' = [npc EXCEPT ![t] = IF found THEN "write" ELSE "lock"]
    /\ UNCHANGED <<ADAPTER, rwReaders, adapterWrites, nargs, nresult, notNewVars>>

\* wgpu.rs:66  `*ADAPTER.write() = Some(adapter)`: the write guard needs the
\* lock free of readers; it is taken and dropped within the statement.
InitStoreAdapter(t) ==
    /\ npc[t] = "write"
    /\ rwReaders = 0
    /\ ADAPTER' = "Some"
    /\ adapterWrites' = adapterWrites + 1
    /\ npc' = [npc EXCEPT ![t] = "lock"]
    /\ UNCHANGED <<rwReaders, nargs, nresult, notNewVars>>

\* wgpu.rs:82  `let lock = ADAPTER.read();` the guard lives until new returns
NewLock(t) ==
    /\ npc[t] = "lock"
    /\ rwReaders' = rwReaders + 1
    /\ npc' = [npc EXCEPT ![t] = "device"]
    /\ UNCHANGED <<ADAPTER, adapterWrites, nargs, nresult, notNewVars>>

\* wgpu.rs:83-92 and 186-207  with an adapter, request_device may fail
\* (`.ok()?`) or the engine is built; without one the result is None.
\* Returning drops the read guard.
NewRequestDevice(t) ==
    /\ npc[t] = "device"
    /\ \E deviceOk \in BOOLEAN :
        nresult' = [nresult EXCEPT ![t] =
                       IF ADAPTER = "Some" /\ deviceOk THEN "Some" ELSE "None"]
    /\ rwReaders' = rwReaders - 1
    /\ npc' = [npc EXCEPT ![t] = "done"]
    /\ UNCHANGED <<ADAPTER, adapterWrites, nargs, notNewVars>>

\* wgpu.rs:48-50  the lazy static starts as RwLock::new(None)
NewIdle ==
    /\ ADAPTER = "None"
    /\ rwReaders = 0
    /\ adapterWrites = 0
    /\ npc = [t \in Threads |-> "start"]
    /\ nargs = [t \in Threads |-> NoArgs]
    /\ nresult = [t \in Threads |-> "pending"]

-----------------------------------------------------------------------------
(* The engine: fields computed by WgpuWrapper::new, lines 72-78 and 105-204 *)

\* wgpu.rs:72  a parameter row is 9 floats
ParamFloats == 9
\* wgpu.rs:78  std::mem::size_of::<f32>()
F32Bytes == 4
\* wgpu.rs:105  wgpu::COPY_BYTES_PER_ROW_ALIGNMENT
COPY_BYTES_PER_ROW_ALIGNMENT == 256
\* wgpu.rs:182  num_params of a fresh engine
InitialNumParams == 3

ZeroBuf(n) == [k \in 0..(n - 1) |-> 0]

BufLen(b) == Cardinality(DOMAIN b)

\* params_size with room for one matrix per row but none for the two headers
ParamsSize_NoHeaders(height) == (ParamFloats * height) * F32Bytes

\* wgpu.rs:72,78  params_size in bytes
ParamsSize(height) == (ParamFloats * (height + 2)) * F32Bytes

\* wgpu.rs:105-107
PaddedOutStride(output_stride) ==
    LET align == COPY_BYTES_PER_ROW_ALIGNMENT
        padding == (align - (output_stride % align)) % align
    IN output_stride + padding

\* wgpu.rs:183 and 211  bg[i] / bg_scaler, kept as the exact quotient <<num, den>>
ScaledBg(bg, bg_scaler) == [i \in 1..4 |-> <<bg[i], bg_scaler>>]

\* wgpu.rs:76-78, 105-108, 174-204  the fields of Self
EngineFields(a, bg_scaler) ==
    [ args |-> a,
      in_stride |-> a.stride,
      out_stride |-> a.output_stride,
      padded_out_stride |-> PaddedOutStride(a.output_stride),
      in_size |-> a.stride * a.height,
      out_size |-> a.output_stride * a.output_height,
      params_size |-> ParamsSize(a.height),
      staging_size |-> PaddedOutStride(a.output_stride) * a.output_height,
      bg_scaler |-> bg_scaler ]

\* wgpu.rs:175-184
InitialGlobals(a, bg, bg_scaler, interpolation) ==
    [ width |-> a.width, height |-> a.height,
      output_width |-> a.output_width, output_height |-> a.output_height,
      num_params |-> InitialNumParams,
      interpolation |-> interpolation,
      bg |-> ScaledBg(bg, bg_scaler) ]

\* Requests the engine of SpecGpu is built from; all pass line 74. The first
\* two have an output stride that is not a multiple of the row alignment (the
\* per-row readback), the third one that is (the fast path); the fourth has
\* more output rows than input rows.
EngineArgs ==
    { [width |-> 1, height |-> 4, stride |-> 1,
       output_width |-> 2, output_height |-> 4, output_stride |-> 2],
      [width |-> 2, height |-> 5, stride |-> 2,
       output_width |-> 2, output_height |-> 4, output_stride |-> 3],
      [width |-> 1, height |-> 4, stride |-> 2,
       output_width |-> 2, output_height |-> 4,
       output_stride |-> COPY_BYTES_PER_ROW_ALIGNMENT],
      [width |-> 1, height |-> 4, stride |-> 1,
       output_width |-> 1, output_height |-> 5, output_stride |-> 1] }

Backgrounds == { <<0, 0, 0, 0>>, <<255, 0, 0, 255>> }

BgScalers == { 255 }

\* Frame and parameter contents handed to the calls
PixelPattern(len, seed) == [k \in 0..(len - 1) |-> (1 + 3 * seed + 5 * k) % 256]

OutputPattern(len) == [k \in 0..(len - 1) |-> (200 + k) % 256]

ParamRows(n, seed) == [r \in 1..n |-> 10 * seed + r]

\* wgpu.rs:215  bytemuck::cast_slice(&itm.params).len()
FlattenedLen(params) == Len(params) * ParamFloats * F32Bytes

\* wgpu.rs:221  queue.write_buffer(&params_buffer, 0, flattened_params):
\* the leading rows are overwritten, the rest of the buffer keeps its content
WriteParams(buf, params) ==
    [r \in DOMAIN buf |-> IF r <= Len(params) THEN params[r] ELSE buf[r]]

\* wgpu.rs:225-238  queue.write_texture: `height` rows of the texture taken
\* from pixels at multiples of bytes_per_row = in_stride
WriteTexture(pix, in_stride, width, height) ==
    [y \in 0..(height - 1) |-> [x \in 0..(width - 1) |-> pix[y * in_stride + x]]]

RECURSIVE SumTo(_, _)
SumTo(f, n) == IF n < 0 THEN 0 ELSE f[n] + SumTo(f, n - 1)

RECURSIVE SumSeq(_, _)
SumSeq(q, n) == IF n = 0 THEN 0 ELSE q[n] + SumSeq(q, n - 1)

\* The fragment shader (wgpu_undistort.wgsl): one output texel is a function
\* of the uploaded globals, the first num_params parameter rows and the input
\* texture.
RenderTexel(x, y, gl, pbuf, tex) ==
    LET rows == IF gl.num_params < Len(pbuf) THEN gl.num_params ELSE Len(pbuf)
        texsum == SumTo([r \in DOMAIN tex |-> SumTo(tex[r], gl.width - 1)], gl.height - 1)
    IN (17 * x + 29 * y + SumSeq(pbuf, rows) + texsum + gl.bg[1][1] + gl.interpolation) % 256

\* wgpu.rs:243-258  the render pass: clear, then draw the full frame
Render(gl, pbuf, tex) ==
    [y \in 0..(gl.output_height - 1) |->
        [x \in 0..(gl.output_width - 1) |-> RenderTexel(x, y, gl, pbuf, tex)]]

\* wgpu.rs:260-276  copy_texture_to_buffer with bytes_per_row = padded_out_stride:
\* texture row y goes to offset y * padded_out_stride, the padding is not written
CopyTextureToBuffer(buf, tex, padded, width, height) ==
    [k \in DOMAIN buf |->
        IF k \div padded < height /\ k % padded < width
          THEN tex[k \div padded][k % padded]
          ELSE buf[k]]

\* number of chunks of `size` bytes in a slice of `len` bytes (chunks/par_chunks)
NumChunks(len, size) == (len + size - 1) \div size

\* variant of CopyRowInto that reads the staging rows at the unpadded stride
CopyRowInto_NoPadding(out, data, i, out_stride, padded) ==
    [k \in DOMAIN out |->
        IF k \div out_stride = i THEN data[i * out_stride + (k % out_stride)] ELSE out[k]]

\* wgpu.rs:299-304  one (src, dest) pair of the zipped chunk iterators:
\* dest.copy_from_slice(&src[0..out_stride])
CopyRowInto(out, data, i, out_stride, padded) ==
    [k \in DOMAIN out |->
        IF k \div out_stride = i THEN data[i * padded + (k % out_stride)] ELSE out[k]]

\* wgpu.rs:289  output_pixels.copy_from_slice(data.as_ref())
CopyWhole(out, data) == [k \in DOMAIN out |-> data[k]]

\* variant of SizeMismatch that forgets the output buffer check
SizeMismatch_NoOutCheck(e, pix, out, params) ==
    \/ e.in_size # BufLen(pix)
    \/ e.params_size < FlattenedLen(params)

\* wgpu.rs:217-219  the three size checks, in order
SizeMismatch(e, pix, out, params) ==
    \/ e.in_size # BufLen(pix)
    \/ e.out_size # BufLen(out)
    \/ e.params_size < FlattenedLen(params)

GpuIdle ==
    /\ eng = EngineFields(NoArgs, 1)
    /\ globals = InitialGlobals(NoArgs, <<0, 0, 0, 0>>, 1, 2)
    /\ globals_buffer = globals
    /\ params_buffer = <<>>
    /\ in_pixels = <<>>
    /\ out_pixels = <<>>
    /\ staging_buffer = <<>>
    /\ staging_map = "unmapped"
    /\ gpc = "idle"
    /\ pixels = <<>>
    /\ output_pixels = <<>>
    /\ itm = <<>>
    /\ out_entry = <<>>
    /\ copy_pending = {}
    /\ steps = <<>>
    /\ outcome = "none"
    /\ calls = 0
    /\ skips = 0

\* State after a successful WgpuWrapper::new (lines 110-204): buffers and
\* textures are created zero-filled and unmapped (mapped_at_creation: false).
InitGpu ==
    /\ NewIdle
    /\ OthersIdle
    /\ \E a \in EngineArgs, bg \in Backgrounds, sc \in BgScalers :
        /\ ~RejectedDims(a)
        /\ eng = EngineFields(a, sc)
        /\ globals = InitialGlobals(a, bg, sc, 2)
        /\ globals_buffer = InitialGlobals(NoArgs, <<0, 0, 0, 0>>, 1, 0)
        /\ params_buffer = [r \in 1..(a.height + 2) |-> 0]
        /\ in_pixels = [y \in 0..(a.height - 1) |-> ZeroBuf(a.width)]
        /\ out_pixels = [y \in 0..(a.output_height - 1) |-> ZeroBuf(a.output_width)]
        /\ staging_buffer = ZeroBuf(PaddedOutStride(a.output_stride) * a.output_height)
    /\ staging_map = "unmapped"
    /\ gpc = "idle"
    /\ pixels = <<>>
    /\ output_pixels = <<>>
    /\ itm = <<>>
    /\ out_entry = <<>>
    /\ copy_pending = {}
    /\ steps = <<>>
    /\ outcome = "none"
    /\ calls = 0
    /\ skips = 0

\* wgpu.rs:210-212
SetBackground ==
    /\ gpc = "idle"
    /\ \E bg \in Backgrounds :
        globals' = [globals EXCEPT !.bg = ScaledBg(bg, eng.bg_scaler)]
    /\ UNCHANGED <<eng, globals_buffer, params_buffer, in_pixels, out_pixels,
                   staging_buffer, staging_map, gpc, pixels, output_pixels, itm,
                   out_entry, copy_pending, steps, outcome, calls, skips, notGpuVars>>

\* variant of EntryEffect that clears the destination before the size checks
EntryEffect_ClearOutput(e, gl, glbuf, pbuf, tex, pix, out, params) ==
    IF SizeMismatch(e, pix, out, params)
      THEN [ skipped |-> TRUE, globals |-> gl, globals_buffer |-> glbuf,
             params_buffer |-> pbuf, in_pixels |-> tex,
             output |-> [k \in DOMAIN out |-> 0] ]
      ELSE LET gl2 == [gl EXCEPT !.num_params = Len(params)]
           IN [ skipped |-> FALSE, globals |-> gl2, globals_buffer |-> gl2,
                params_buffer |-> WriteParams(pbuf, params),
                in_pixels |-> WriteTexture(pix, e.in_stride, gl2.width, gl2.height),
                output |-> [k \in DOMAIN out |-> 0] ]

\* variant of EntryEffect that stores num_params before the size checks
EntryEffect_EarlyNumParams(e, gl, glbuf, pbuf, tex, pix, out, params) ==
    LET gl2 == [gl EXCEPT !.num_params = Len(params)]
    IN IF SizeMismatch(e, pix, out, params)
         THEN [ skipped |-> TRUE, globals |-> gl2, globals_buffer |-> glbuf,
                params_buffer |-> pbuf, in_pixels |-> tex, output |-> out ]
         ELSE [ skipped |-> FALSE, globals |-> gl2, globals_buffer |-> gl2,
                params_buffer |-> WriteParams(pbuf, params),
                in_pixels |-> WriteTexture(pix, e.in_stride, gl2.width, gl2.height),
                output |-> out ]

\* wgpu.rs:214-238  what entering undistort_image does to the engine and to
\* the destination: nothing when a size check fails (each check returns),
\* otherwise the parameter rows, num_params, the globals and the input
\* texture are uploaded. The destination is not touched here.
EntryEffect(e, gl, glbuf, pbuf, tex, pix, out, params) ==
    IF SizeMismatch(e, pix, out, params)
      THEN [ skipped |-> TRUE, globals |-> gl, globals_buffer |-> glbuf,
             params_buffer |-> pbuf, in_pixels |-> tex, output |-> out ]
      ELSE LET gl2 == [gl EXCEPT !.num_params = Len(params)]
           IN [ skipped |-> FALSE, globals |-> gl2, globals_buffer |-> gl2,
                params_buffer |-> WriteParams(pbuf, params),
                in_pixels |-> WriteTexture(pix, e.in_stride, gl2.width, gl2.height),
                output |-> out ]

\* wgpu.rs:214-281  entry of undistort_image: the size checks, then the
\* uploads, the recorded render pass and copy, submit and map_async.
UndistortImage ==
    /\ gpc = "idle"
    /\ calls < MaxCalls
    /\ \E seed \in Seeds,
          pixLen \in {eng.in_size, eng.in_size + 1},
          outLen \in {eng.out_size, eng.out_size - 1},
          rows \in {InitialNumParams, eng.args.height + 2, eng.args.height + 3,
                    eng.args.output_height + 2} :
        LET pix == PixelPattern(pixLen, seed)
            out == OutputPattern(outLen)
            params == ParamRows(rows, seed)
            eff == EntryEffect(eng, globals, globals_buffer, params_buffer, in_pixels,
                               pix, out, params)
        IN /\ pixels' = pix
           /\ out_entry' = out
           /\ itm' = params
           /\ calls' = calls + 1
           /\ copy_pending' = {}
           /\ output_pixels' = eff.output
           /\ globals' = eff.globals
           /\ globals_buffer' = eff.globals_buffer
           /\ params_buffer' = eff.params_buffer
           /\ in_pixels' = eff.in_pixels
           /\ IF eff.skipped
                THEN /\ outcome' = "skipped"
                     /\ skips' = skips + 1
                     /\ steps' = <<>>
                     /\ UNCHANGED gpc
                ELSE /\ outcome' = "running"
                     /\ steps' = <<"write_params", "write_globals", "write_texture",
                                   "draw", "copy_texture_to_buffer", "submit", "map_async">>
                     /\ gpc' = "submitted"
                     /\ UNCHANGED skips
    /\ UNCHANGED <<eng, out_pixels, staging_buffer, staging_map, notGpuVars>>

\* wgpu.rs:283-285  device.poll(Wait) runs the submitted work and resolves the
\* map request. When the map fails (lines 310-313) the call logs and returns.
DevicePoll ==
    /\ gpc = "submitted"
    /\ \E mapOk \in BOOLEAN, ran \in BOOLEAN :
        LET tex == Render(globals_buffer, params_buffer, in_pixels)
            done == mapOk \/ ran
        IN /\ out_pixels' = IF done THEN tex ELSE out_pixels
           /\ staging_buffer' =
                 IF done
                   THEN CopyTextureToBuffer(staging_buffer, tex, eng.padded_out_stride,
                                            globals_buffer.output_width,
                                            globals_buffer.output_height)
                   ELSE staging_buffer
           /\ IF mapOk
                THEN /\ staging_map' = "mapped"
                     /\ gpc' = "mapped"
                     /\ copy_pending' =
                           0..(NumChunks(eng.out_size, eng.out_stride) - 1)
                             \cap 0..(NumChunks(eng.staging_size, eng.padded_out_stride) - 1)
                     /\ steps' = steps \o <<"poll", "mapped">>
                     /\ UNCHANGED outcome
                ELSE /\ outcome' = "map_failed"
                     /\ gpc' = "idle"
                     /\ steps' = steps \o <<"poll", "map_failed">>
                     /\ UNCHANGED <<staging_map, copy_pending>>
    /\ UNCHANGED <<eng, globals, globals_buffer, params_buffer, in_pixels,
                   pixels, output_pixels, itm, out_entry, calls, skips, notGpuVars>>

\* wgpu.rs:287-289  fast path
CopyFastPath ==
    /\ gpc = "mapped"
    /\ copy_pending # {}
    /\ eng.padded_out_stride = eng.out_stride
    /\ output_pixels' = CopyWhole(output_pixels, staging_buffer)
    /\ copy_pending' = {}
    /\ steps' = Append(steps, "copy")
    /\ UNCHANGED <<eng, engineVars, gpc, pixels, itm, out_entry, outcome, calls,
                   skips, notGpuVars>>

\* wgpu.rs:297-304  one row of the parallel per-row copy, rows in any order
CopyRow(i) ==
    /\ gpc = "mapped"
    /\ i \in copy_pending
    /\ eng.padded_out_stride # eng.out_stride
    /\ output_pixels' = CopyRowInto(output_pixels, staging_buffer, i,
                                    eng.out_stride, eng.padded_out_stride)
    /\ copy_pending' = copy_pending \ {i}
    /\ steps' = IF copy_pending' = {} THEN Append(steps, "copy") ELSE steps
    /\ UNCHANGED <<eng, engineVars, gpc, pixels, itm, out_entry, outcome, calls,
                   skips, notGpuVars>>

\* the end of the Ok arm without staging_buffer.unmap()
Unmap_KeepMapped ==
    /\ gpc = "mapped"
    /\ copy_pending = {}
    /\ gpc' = "idle"
    /\ outcome' = "ok"
    /\ steps' = Append(steps, "unmap")
    /\ UNCHANGED <<eng, globals, globals_buffer, params_buffer, in_pixels, out_pixels,
                   staging_buffer, staging_map, pixels, output_pixels, itm, out_entry,
                   copy_pending, calls, skips, notGpuVars>>

\* wgpu.rs:307-309  drop(data); staging_buffer.unmap(); return
Unmap ==
    /\ gpc = "mapped"
    /\ copy_pending = {}
    /\ staging_map' = "unmapped"
    /\ gpc' = "idle"
    /\ outcome' = "ok"
    /\ steps' = Append(steps, "unmap")
    /\ UNCHANGED <<eng, globals, globals_buffer, params_buffer, in_pixels, out_pixels,
                   staging_buffer, pixels, output_pixels, itm, out_entry,
                   copy_pending, calls, skips, notGpuVars>>

NextGpu ==
    \/ SetBackground
    \/ UndistortImage
    \/ DevicePoll
    \/ CopyFastPath
    \/ \E i \in 0..(MinHeight + MaxCalls) : CopyRow(i)
    \/ Unmap

SpecGpu == InitGpu /\ [][NextGpu]_vars
InitNew == NewIdle /\ GpuIdle /\ OthersIdle

NextNew ==
    \E t \in Threads :
        \/ NewBegin(t)
        \/ NewCheckAdapter(t)
        \/ InitRequestAdapter(t)
        \/ InitStoreAdapter(t)
        \/ NewLock(t)
        \/ NewRequestDevice(t)

SpecNew == InitNew /\ [][NextNew]_vars

-----------------------------------------------------------------------------
(* Floating-point model.  f32/f64 values are fixed-point integers counting  *)
(* millionths, the resolution of the convergence threshold 1e-6 of          *)
(* undistort_point; products and quotients round toward zero.  sqrt, tan    *)
(* and atan are evaluated by Newton iteration and by their [5/4] Pade       *)
(* approximants.                                                            *)

\* cpu_undistort.rs:63  t_eps = 1e-6 is one unit
FxOne == 1000000

Fx(n) == n * FxOne

AbsI(a) == IF a < 0 THEN -a ELSE a

MinI(a, b) == IF a < b THEN a ELSE b

MaxI(a, b) == IF a > b THEN a ELSE b

SignI(a) == IF a < 0 THEN -1 ELSE 1

MulNat(a, b) ==
    LET ah == a \div 1000
        al == a % 1000
        bh == b \div 1000
        bl == b % 1000
    IN ah * bh + (ah * bl + al * bh + (al * bl) \div 1000) \div 1000

\* a * b
MulFx(a, b) == SignI(a) * SignI(b) * MulNat(AbsI(a), AbsI(b))

RECURSIVE DivDigits(_, _, _)
DivDigits(r, b, n) ==
    IF n = 0 THEN 0
    ELSE ((r * 10) \div b) * (10 ^ (n - 1)) + DivDigits((r * 10) % b, b, n - 1)

DivNat(a, b) == (a \div b) * FxOne + DivDigits(a % b, b, 6)

\* a / b for b # 0
DivFx(a, b) == SignI(a) * SignI(b) * DivNat(AbsI(a), AbsI(b))

\* Newton iteration s -> (s + v/s) / 2 from above, until it stops decreasing
RECURSIVE SqrtIter(_, _, _, _)
SqrtIter(v, s, t, n) ==
    IF n = 0 \/ t >= s THEN s ELSE SqrtIter(v, t, (t + DivFx(v, t)) \div 2, n - 1)

SqrtFrom(v, s) == SqrtIter(v, s, (s + DivFx(v, s)) \div 2, 40)

\* Float::sqrt
SqrtFx(v) == IF v <= 0 THEN 0 ELSE SqrtFrom(v, MaxI(v, FxOne))

\* Float::round: to the nearest integer, halves away from zero
RoundFx(a) == IF a < 0 THEN -((-a + FxOne \div 2) \div FxOne) ELSE (a + FxOne \div 2) \div FxOne

\* c0 + c1 x^2 + c2 x^4
EvenPoly(x2, c0, c1, c2) == c0 + MulFx(c1, x2) + MulFx(c2, MulFx(x2, x2))

Ratio(num, den, atPole) == IF den = 0 THEN atPole ELSE DivFx(num, den)

\* Float::tan
TanFx(x) ==
    Ratio(MulFx(x, EvenPoly(MulFx(x, x), FxOne, -111111, 1058)),
          EvenPoly(MulFx(x, x), FxOne, -444444, 15873), Fx(1000))

AtanUnit(x) ==
    Ratio(MulFx(x, EvenPoly(MulFx(x, x), FxOne, 777778, 67725)),
          EvenPoly(MulFx(x, x), FxOne, 1111111, 238095), 0)

\* cpu_undistort.rs:62  std::f64::consts::PI
FxPi == 3141593

\* Float::atan for r >= 0
AtanFx(r) == IF r <= FxOne THEN AtanUnit(r) ELSE FxPi \div 2 - AtanUnit(DivFx(FxOne, r))

-----------------------------------------------------------------------------
(* The camera model, cpu_undistort.rs:55-146.  A point is <<x, y>>, the     *)
(* distortion coefficients k are <<k0, k1, k2, k3>>.                        *)

\* cpu_undistort.rs:65  t_max_fix
MaxFix == 900000
\* cpu_undistort.rs:83  for _ in 0..10
NewtonIterations == 10

Clamp(v, lo, hi) == MinI(MaxI(v, lo), hi)

\* cpu_undistort.rs:67 and 129  point.0 * point.0 + point.1 * point.1
Norm2(point) == MulFx(point[1], point[1]) + MulFx(point[2], point[2])

\* cpu_undistort.rs:93-97  the quotient, clamped to +-0.9; a zero derivative
\* gives an infinite quotient (clamped) or NaN, which max/min turn into -0.9
ClampedFix(num, den) ==
    IF den = 0
      THEN (IF num > 0 THEN MaxFix ELSE -MaxFix)
      ELSE Clamp(DivFx(num, den), -MaxFix, MaxFix)

\* cpu_undistort.rs:88-95  from the four products k_i * theta^(2i+2)
ThetaFixFrom(theta, theta_d, k0_theta2, k1_theta4, k2_theta6, k3_theta8) ==
    ClampedFix(
        MulFx(theta, FxOne + k0_theta2 + k1_theta4 + k2_theta6 + k3_theta8) - theta_d,
        FxOne + 3 * k0_theta2 + 5 * k1_theta4 + 7 * k2_theta6 + 9 * k3_theta8)

\* cpu_undistort.rs:84-97  theta_fix of one Newton step
ThetaFix(theta, theta_d, k) ==
    LET theta2 == MulFx(theta, theta)
        theta4 == MulFx(theta2, theta2)
        theta6 == MulFx(theta4, theta2)
        theta8 == MulFx(theta6, theta2)
    IN ThetaFixFrom(theta, theta_d, MulFx(k[1], theta2), MulFx(k[2], theta4),
                    MulFx(k[3], theta6), MulFx(k[4], theta8))

\* cpu_undistort.rs:83-104  the loop; yields the final theta and `converged`
RECURSIVE NewtonLoop(_, _, _, _)
RECURSIVE NewtonStep(_, _, _, _, _)
NewtonLoop(theta, theta_d, k, n) ==
    IF n = 0 THEN [theta |-> theta, converged |-> FALSE]
    ELSE NewtonStep(theta, ThetaFix(theta, theta_d, k), theta_d, k, n)

\* cpu_undistort.rs:99-103
NewtonStep(theta, theta_fix, theta_d, k, n) ==
    IF AbsI(theta_fix) < 1
      THEN [theta |-> theta - theta_fix, converged |-> TRUE]
      ELSE NewtonLoop(theta - theta_fix, theta_d, k, n - 1)

\* cpu_undistort.rs:114-122  the result, given the loop's outcome
UndistortResult(point, theta_d, amount, res) ==
    LET scale0 == IF AbsI(theta_d) > 1 THEN DivFx(TanFx(res.theta), theta_d) ELSE 0
        theta_flipped == (theta_d < 0 /\ res.theta > 0) \/ (theta_d > 0 /\ res.theta < 0)
        scale == FxOne + MulFx(scale0 - FxOne, FxOne - amount)
    IN IF res.converged /\ ~theta_flipped
         THEN [ok |-> TRUE, pt |-> <<MulFx(point[1], scale), MulFx(point[2], scale)>>]
         ELSE [ok |-> FALSE, pt |-> <<0, 0>>]

\* cpu_undistort.rs:74-109  the iteration, skipped for |theta_d| <= eps
UndistortFrom(point, theta_d, k, amount) ==
    UndistortResult(point, theta_d, amount,
                    IF AbsI(theta_d) > 1
                      THEN NewtonLoop(0, theta_d, k, NewtonIterations)
                      ELSE [theta |-> theta_d, converged |-> TRUE])

\* cpu_undistort.rs:55-123  Some((x, y)) is [ok |-> TRUE, pt |-> <<x, y>>],
\* None is [ok |-> FALSE, pt |-> <<0, 0>>]
undistort_point(point, k, amount) ==
    UndistortFrom(point, Clamp(SqrtFx(Norm2(point)), -FxPi, FxPi), k, amount)

\* cpu_undistort.rs:131-137  theta_d of the forward model
ThetaD(theta, k) ==
    LET theta2 == MulFx(theta, theta)
        theta4 == MulFx(theta2, theta2)
        theta6 == MulFx(theta4, theta2)
        theta8 == MulFx(theta4, theta4)
    IN MulFx(theta, FxOne + MulFx(k[1], theta2) + MulFx(k[2], theta4)
                          + MulFx(k[3], theta6) + MulFx(k[4], theta8))

\* cpu_undistort.rs:140-145
DistortScaled(point, f, c, scale) ==
    << MulFx(MulFx(f[1], point[1]), scale) + c[1],
       MulFx(MulFx(f[2], point[2]), scale) + c[2] >>

\* cpu_undistort.rs:131-140  given r
DistortFrom(point, f, c, k, amount, r) ==
    DistortScaled(point, f, c,
        FxOne + MulFx((IF r = 0 THEN FxOne ELSE DivFx(ThetaD(AtanFx(r), k), r)) - FxOne,
                      FxOne - amount))

\* cpu_undistort.rs:125-146
distort_point(point, f, c, k, amount) ==
    DistortFrom(point, f, c, k, amount, SqrtFx(Norm2(point)))

-----------------------------------------------------------------------------
(* Interpolation tables, cpu_undistort.rs:8-53, in millionths.  The Rust   *)
(* array is indexed from 0: entry i is COEFFS[i + 1].                       *)

COEFFS ==
    <<
       1000000, 0, 968750, 31250, 937500, 62500, 906250, 93750,
       875000, 125000, 843750, 156250, 812500, 187500, 781250, 218750,
       750000, 250000, 718750, 281250, 687500, 312500, 656250, 343750,
       625000, 375000, 593750, 406250, 562500, 437500, 531250, 468750,
       500000, 500000, 468750, 531250, 437500, 562500, 406250, 593750,
       375000, 625000, 343750, 656250, 312500, 687500, 281250, 718750,
       250000, 750000, 218750, 781250, 187500, 812500, 156250, 843750,
       125000, 875000, 93750, 906250, 62500, 937500, 31250, 968750,
       0, 1000000, 0, 0, -21996, 997841, 24864, -710,
       -41199, 991516, 52429, -2747, -57747, 981255, 82466, -5974,
       -71777, 967285, 114746, -10254, -83427, 949837, 149040, -15450,
       -92834, 929138, 185120, -21423, -100136, 905418, 222755, -28038,
       -105469, 878906, 261719, -35156, -108971, 849831, 301781, -42641,
       -110779, 818420, 342712, -50354, -111031, 784904, 384285, -58159,
       -109863, 749512, 426270, -65918, -107414, 712471, 468437, -73494,
       -103821, 674011, 510559, -80750, -99220, 634361, 552406, -87547,
       -93750, 593750, 593750, -93750, -87547, 552406, 634361, -99220,
       -80750, 510559, 674011, -103821, -73494, 468437, 712471, -107414,
       -65918, 426270, 749512, -109863, -58159, 384285, 784904, -111031,
       -50354, 342712, 818420, -110779, -42641, 301781, 849831, -108971,
       -35156, 261719, 878906, -105469, -28038, 222755, 905418, -100136,
       -21423, 185120, 929138, -92834, -15450, 149040, 949837, -83427,
       -10254, 114746, 967285, -71777, -5974, 82466, 981255, -57747,
       -2747, 52429, 991516, -41199, -710, 24864, 997841, -21996,
       0, 0, 0, 1000000, 0, 0, 0, 0,
       -2981, 9625, -27053, 998265, 29187, -10246, 3264, -62,
       -5661, 18562, -51889, 993077, 60407, -21035, 6789, -250,
       -8027, 26758, -74449, 984478, 93543, -32281, 10545, -567,
       -10071, 34167, -94690, 972534, 128459, -43886, 14499, -1012,
       -11792, 40757, -112589, 957333, 165004, -55744, 18613, -1582,
       -13191, 46507, -128145, 938985, 203012, -67742, 22845, -2271,
       -14275, 51405, -141372, 917621, 242303, -79757, 27146, -3071,
       -15054, 55449, -152304, 893389, 282684, -91661, 31468, -3971,
       -15544, 58648, -160990, 866453, 323952, -103318, 35754, -4956,
       -15761, 61020, -167496, 836995, 365895, -114591, 39949, -6011,
       -15727, 62590, -171900, 805208, 408290, -125335, 43992, -7117,
       -15463, 63390, -174295, 771299, 450908, -135406, 47823, -8254,
       -14995, 63460, -174786, 735484, 493515, -144657, 51378, -9399,
       -14349, 62844, -173485, 697987, 535873, -152938, 54595, -10527,
       -13551, 61594, -170517, 659039, 577742, -160105, 57411, -11613,
       -12630, 59764, -166011, 618877, 618877, -166011, 59764, -12630,
       -11613, 57411, -160105, 577742, 659039, -170517, 61594, -13551,
       -10527, 54595, -152938, 535873, 697987, -173485, 62844, -14349,
       -9399, 51378, -144657, 493515, 735484, -174786, 63460, -14995,
       -8254, 47823, -135406, 450908, 771299, -174295, 63390, -15463,
       -7117, 43992, -125336, 408290, 805208, -171900, 62590, -15727,
       -6011, 39949, -114591, 365895, 836995, -167496, 61020, -15761,
       -4956, 35754, -103318, 323952, 866453, -160990, 58648, -15544,
       -3971, 31468, -91661, 282684, 893389, -152304, 55449, -15054,
       -3071, 27146, -79757, 242303, 917621, -141372, 51405, -14275,
       -2271, 22845, -67742, 203012, 938985, -128145, 46507, -13191,
       -1582, 18613, -55744, 165004, 957333, -112589, 40757, -11792,
       -1012, 14499, -43886, 128459, 972534, -94690, 34167, -10071,
       -567, 10545, -32281, 93543, 984478, -74449, 26758, -8027,
       -250, 6789, -21035, 60407, 993077, -51889, 18562, -5661,
       -62, 3264, -10246, 29187, 998265, -27053, 9625, -2981
    >>

\* cpu_undistort.rs:155-156
INTER_BITS == 5
INTER_TAB_SIZE == 2 ^ INTER_BITS

\* cpu_undistort.rs:173-175  I >> 2 selects the kernel: 2 -> 0, 4 -> 1, 8 -> 2
KernelIndex(I) == I \div 4
KernelShift(I) == KernelIndex(I) + 1
KernelOffset(I) == <<0, Fx(1), Fx(3)>>[KernelIndex(I) + 1]
KernelInd(I) == <<0, 64, 64 + 128>>[KernelIndex(I) + 1]

\* the integer part by a division, which rounds toward zero
IntegerPart_Truncating(s0) ==
    IF s0 >= 0 THEN s0 \div INTER_TAB_SIZE ELSE -((-s0) \div INTER_TAB_SIZE)

\* cpu_undistort.rs:246-247  s0 >> INTER_BITS on an i32: the arithmetic shift
\* rounds toward minus infinity
IntegerPart(s0) == IF s0 >= 0 THEN s0 \div INTER_TAB_SIZE
                   ELSE -((-s0 + INTER_TAB_SIZE - 1) \div INTER_TAB_SIZE)

\* cpu_undistort.rs:249-250  s0 as usize & (INTER_TAB_SIZE - 1): the low five
\* bits of the two's complement pattern
Phase(s0) == IF s0 >= 0 THEN s0 % INTER_TAB_SIZE
             ELSE (INTER_TAB_SIZE - ((-s0) % INTER_TAB_SIZE)) % INTER_TAB_SIZE

\* the first index without the shift: one entry per phase instead of I
CoeffsStart_NoShift(I, s0) == KernelInd(I) + Phase(s0)

\* cpu_undistort.rs:249-250  first index of &COEFFS[ind + (phase << shift)..]
CoeffsStart(I, s0) == KernelInd(I) + Phase(s0) * (2 ^ KernelShift(I))

\* cpu_undistort.rs:265,268,270  the entries coeffs[0] .. coeffs[I-1] the loops read
CoeffsAt(I, s0) == [t \in 0..(I - 1) |-> COEFFS[CoeffsStart(I, s0) + t + 1]]
-----------------------------------------------------------------------------
(* undistort_image_cpu, cpu_undistort.rs:152-281.  The call's arguments are *)
(* the record cin: I, width, height, stride, output_width, output_height,   *)
(* output_stride, undistortion_params (rows of 9 floats), bg, pixels, and   *)
(* count = T::COUNT for a pixel type of one-byte scalars.  Row i of the     *)
(* Rust slice is params[i + 1], element j of a row is row[j + 1].           *)

\* cpu_undistort.rs:172  T::COUNT * T::SCALAR_BYTES
BytesPerPixel(in) == in.count * 1

\* PixelType::to_float: the scalars of the pixel as floats, missing channels 0
ToFloat(bytes, count) == [ch \in 1..4 |-> IF ch <= count THEN Fx(bytes[ch]) ELSE 0]

\* PixelType::from_float: each channel cast to the scalar type (truncating,
\* saturating at 0 and 255)
FromFloat(v, count) ==
    [ch \in 1..count |->
        IF v[ch] <= 0 THEN 0
        ELSE IF v[ch] >= Fx(255) THEN 255
        ELSE v[ch] \div FxOne]

\* cpu_undistort.rs:158-164  the two header rows
LensF(in) == <<in.params[1][1], in.params[1][2]>>
LensC(in) == <<in.params[1][3], in.params[1][4]>>
LensK(in) == <<in.params[1][5], in.params[1][6], in.params[1][7], in.params[1][8]>>
RLimit(in) == in.params[1][9]
LensCorrectionAmount(in) == in.params[2][1]
BackgroundMode(in) == in.params[2][2]
Fov(in) == in.params[2][3]

\* cpu_undistort.rs:165-166
EdgeRepeat(in) == BackgroundMode(in) > 900000 /\ BackgroundMode(in) < 1100000
EdgeMirror(in) == BackgroundMode(in) > 1900000 /\ BackgroundMode(in) < 2100000

\* cpu_undistort.rs:186-188 and 206-208  row matrix m applied to (px, py)
Homography(m, px, py) ==
    [ x |-> MulFx(py, m[2]) + m[3] + MulFx(px, m[1]),
      y |-> MulFx(py, m[5]) + m[6] + MulFx(px, m[4]),
      w |-> MulFx(py, m[8]) + m[9] + MulFx(px, m[7]) ]

\* cpu_undistort.rs:185  index of the middle matrix
MiddleIndex(in) == 2 + (Len(in.params) - 2) \div 2

\* cpu_undistort.rs:190-195  sy from the middle matrix's homography h
SourceRowFrom(in, y, h) ==
    IF h.w > 0
      THEN MaxI(MinI(RoundFx(distort_point(<<DivFx(h.x, h.w), DivFx(h.y, h.w)>>,
                                           LensF(in), LensC(in), LensK(in), 0)[2]),
                     in.height), 0)
      ELSE y

\* cpu_undistort.rs:183-195  source row for rolling shutter
SourceRow(in, x, y) ==
    IF Len(in.params) > 3
      THEN SourceRowFrom(in, y, Homography(in.params[MiddleIndex(in) + 1], Fx(x), Fx(y)))
      ELSE y

\* cpu_undistort.rs:168  factor
Factor(in) == MaxI(FxOne - LensCorrectionAmount(in), 1000)

\* cpu_undistort.rs:169  f2
F2(in) == << DivFx(DivFx(LensF(in)[1], Fov(in)), Factor(in)),
             DivFx(DivFx(LensF(in)[2], Fov(in)), Factor(in)) >>

\* cpu_undistort.rs:170  out_c
OutC(in) == << Fx(in.output_width) \div 2, Fx(in.output_height) \div 2 >>

\* cpu_undistort.rs:201  unwrap_or_default: a failed inversion is (0.0, 0.0)
UnwrapOrDefault(u) == IF u.ok THEN u.pt ELSE <<0, 0>>

\* cpu_undistort.rs:202
Rescale(p2, f2, out_c) == << MulFx(p2[1], f2[1]) + out_c[1], MulFx(p2[2], f2[2]) + out_c[2] >>

\* cpu_undistort.rs:200  ((pt.0 - out_c.0) / f2.0, (pt.1 - out_c.1) / f2.1)
ToLens(x, y, f2, out_c) ==
    << DivFx(Fx(x) - out_c[1], f2[1]), DivFx(Fx(y) - out_c[2], f2[2]) >>

\* cpu_undistort.rs:200-202
PreWarpWith(in, x, y, f2, out_c) ==
    Rescale(UnwrapOrDefault(undistort_point(ToLens(x, y, f2, out_c),
                                            LensK(in), LensCorrectionAmount(in))),
            f2, out_c)

\* cpu_undistort.rs:197-203  the position handed to the row homography
PreWarp(in, x, y) ==
    IF LensCorrectionAmount(in) < FxOne
      THEN PreWarpWith(in, x, y, F2(in), OutC(in))
      ELSE << Fx(x), Fx(y) >>

\* cpu_undistort.rs:205  index of the row used for the pixel
RowIndex(in, sy) == MinI(sy + 2, Len(in.params) - 1)

\* cpu_undistort.rs:206-208
HomographyAt(m, pt) == Homography(m, pt[1], pt[2])

\* cpu_undistort.rs:205-208
PixelHomography(in, x, y) ==
    HomographyAt(in.params[RowIndex(in, SourceRow(in, x, y)) + 1], PreWarp(in, x, y))

\* the radius test without the r_limit > 0.0 operand
RadiusLimited_NoZeroGuard(posx, posy, r_limit) ==
    MulFx(posx, posx) + MulFx(posy, posy) > MulFx(r_limit, r_limit)

\* cpu_undistort.rs:216  the radius test
RadiusLimited(posx, posy, r_limit) ==
    r_limit > 0 /\ MulFx(posx, posx) + MulFx(posy, posy) > MulFx(r_limit, r_limit)

\* the edge policy with the clamp applied whatever the background mode
EdgePolicy_AlwaysClamp(in, pt) ==
    << MinI(MaxI(pt[1], 0), Fx(in.width) - FxOne),
       MinI(MaxI(pt[2], 0), Fx(in.height) - FxOne) >>

\* cpu_undistort.rs:222-238  the edge policy applied to the sample position
EdgePolicy(in, pt) ==
    LET width_f == Fx(in.width)
        height_f == Fx(in.height)
    IN IF EdgeRepeat(in)
         THEN << MinI(MaxI(pt[1], 0), width_f - FxOne),
                 MinI(MaxI(pt[2], 0), height_f - FxOne) >>
       ELSE IF EdgeMirror(in)
         THEN LET rx == Fx(RoundFx(pt[1]))
                  ry == Fx(RoundFx(pt[2]))
                  width3 == width_f - Fx(3)
                  height3 == height_f - Fx(3)
                  x1 == IF rx > width3 THEN width3 - (rx - width3) ELSE pt[1]
                  x2 == IF rx < Fx(3) THEN Fx(3) + width_f - (width3 + rx) ELSE x1
                  y1 == IF ry > height3 THEN height3 - (ry - height3) ELSE pt[2]
                  y2 == IF ry < Fx(3) THEN Fx(3) + height_f - (height3 + ry) ELSE y1
              IN << x2, y2 >>
       ELSE pt

\* cpu_undistort.rs:260  the bytes of one source pixel, read at
\* src_index + bytes_per_pixel * xp
ReadPixel(in, index) ==
    [ch \in 1..in.count |-> in.pixels[index + (ch - 1)]]

AddV(a, b) == [ch \in 1..4 |-> a[ch] + b[ch]]

ScaleV(a, c) == [ch \in 1..4 |-> MulFx(a[ch], c)]

ZeroV == [ch \in 1..4 |-> 0]

\* cpu_undistort.rs:258-266  the inner loop over xp, for the row at src_index
RECURSIVE RowSum(_, _, _, _, _)
RowSum(in, sx, src_index, coeffs_x, xp) ==
    IF xp = in.I THEN ZeroV
    ELSE LET pixel == IF sx + xp >= 0 /\ sx + xp < in.width
                        THEN ToFloat(ReadPixel(in, src_index + BytesPerPixel(in) * xp),
                                     in.count)
                        ELSE in.bg
         IN AddV(ScaleV(pixel, coeffs_x[xp]), RowSum(in, sx, src_index, coeffs_x, xp + 1))

\* cpu_undistort.rs:255-273  the outer loop over yp
RECURSIVE TapSum(_, _, _, _, _, _, _)
TapSum(in, sx, sy, src_index, coeffs_x, coeffs_y, yp) ==
    IF yp = in.I THEN ZeroV
    ELSE LET term == IF sy + yp >= 0 /\ sy + yp < in.height
                       THEN ScaleV(RowSum(in, sx, src_index, coeffs_x, 0), coeffs_y[yp])
                       ELSE ScaleV(in.bg, coeffs_y[yp])
         IN AddV(term, TapSum(in, sx, sy, src_index + in.stride, coeffs_x, coeffs_y, yp + 1))

\* cpu_undistort.rs:248-273  the sum, from the fixed-point positions sx0, sy0
InterpolateAt(in, sx0, sy0) ==
    FromFloat(TapSum(in, IntegerPart(sx0), IntegerPart(sy0),
                     IntegerPart(sy0) * in.stride + IntegerPart(sx0) * BytesPerPixel(in),
                     CoeffsAt(in.I, sx0), CoeffsAt(in.I, sy0), 0),
              in.count)

\* cpu_undistort.rs:240-274  interpolation at the sample position pt
Interpolate(in, pt) ==
    InterpolateAt(in, RoundFx((pt[1] - KernelOffset(in.I)) * INTER_TAB_SIZE),
                      RoundFx((pt[2] - KernelOffset(in.I)) * INTER_TAB_SIZE))

\* cpu_undistort.rs:216-274  the pixel at the undistorted position (posx, posy)
CpuPixelAt(in, posx, posy) ==
    IF RadiusLimited(posx, posy, RLimit(in))
      THEN [branch |-> "radius_bg", bytes |-> FromFloat(in.bg, in.count)]
      ELSE [branch |-> "sampled",
            bytes |-> Interpolate(in, EdgePolicy(in, distort_point(<<posx, posy>>, LensF(in),
                                                                   LensC(in), LensK(in), 0)))]

\* cpu_undistort.rs:212-277  the pixel, given the row homography's result
CpuPixelFrom(in, h) ==
    IF h.w > 0
      THEN CpuPixelAt(in, DivFx(h.x, h.w), DivFx(h.y, h.w))
      ELSE [branch |-> "w_bg", bytes |-> FromFloat(in.bg, in.count)]

\* cpu_undistort.rs:197-277  one output pixel: which branch wrote it and the
\* bytes written
CpuPixel(in, x, y) == CpuPixelFrom(in, PixelHomography(in, x, y))

\* the offset of a pixel chunk if every row wrote through the first row chunk
ChunkOffset_FirstRow(in, y, x) == x * BytesPerPixel(in)

\* cpu_undistort.rs:185,197-205  what the pixel (x, y) hands to the row
\* homography: the position, the index of the middle matrix when line 185
\* runs (-1 otherwise) and the index of the row used at line 205
PixelUse(in, x, y) ==
    [ pt |-> PreWarp(in, x, y),
      middle |-> IF Len(in.params) > 3 THEN MiddleIndex(in) ELSE -1,
      row |-> RowIndex(in, SourceRow(in, x, y)) ]

\* cpu_undistort.rs:177-178  par_chunks_mut(output_stride) and
\* chunks_mut(bytes_per_pixel): offset of pixel chunk x of row chunk y
ChunkOffset(in, y, x) == y * in.output_stride + x * BytesPerPixel(in)

\* cpu_undistort.rs:210,217,274,276  *pix_out = value, through the row's chunk
WritePixel(out, in, y, x, bytes) ==
    [k \in DOMAIN out |->
        IF k >= ChunkOffset(in, y, x) /\ k < ChunkOffset(in, y, x) + BytesPerPixel(in)
          THEN bytes[k - ChunkOffset(in, y, x) + 1]
          ELSE out[k]]

\* cpu_undistort.rs:178-179  what the row task of row y does with chunk x
ProcessChunk(out, in, y, x) ==
    IF y < in.output_height /\ x < in.output_width
      THEN WritePixel(out, in, y, x, CpuPixel(in, x, y).bytes)
      ELSE out

-----------------------------------------------------------------------------
(* Calls of undistort_image_cpu tried by SpecCpu *)

KZero == <<0, 0, 0, 0>>

\* a lens whose polynomial has no root beyond theta_d = 0.544: inversion fails there
KFold == <<-500000, 0, 0, 0>>

\* undistortion_params[0] and [1]
Header0(f, c, k, r_limit) == <<f, f, c, c, k[1], k[2], k[3], k[4], r_limit>>

Header1(amount, mode, fov) == <<amount, mode, fov, 0, 0, 0, 0, 0, 0>>

\* a row matrix: scale finv, translation (tx, ty), w = wx * x + w0
RowMatrix(finv, tx, ty, wx, w0) == <<finv, 0, tx, 0, finv, ty, wx, 0, w0>>

CpuBase ==
    [ I |-> 2, count |-> 1, width |-> 3, height |-> 3, stride |-> 4,
      output_width |-> 2, output_height |-> CpuRows, output_stride |-> 3,
      bg |-> <<Fx(7), Fx(8), Fx(9), Fx(10)>>,
      pixels |-> [k \in 0..11 |-> (20 + 17 * k) % 256],
      params |-> << Header0(Fx(2), Fx(1), KZero, 0), Header1(FxOne, 0, FxOne),
                    RowMatrix(500000, -500000, -500000, 0, FxOne) >> ]

CpuCases ==
    { CpuBase,
      \* a radius limit of 0.6
      [CpuBase EXCEPT !.params[1] = Header0(Fx(2), Fx(1), KZero, 600000)],
      \* a radius limit of 0.5, met exactly by the pixels at distance 0.5
      [CpuBase EXCEPT !.params[1] = Header0(Fx(2), Fx(1), KZero, 500000)],
      \* a negative radius limit
      [CpuBase EXCEPT !.params[1] = Header0(Fx(2), Fx(1), KZero, -600000)],
      \* w = 1 - x, a radius limit, bicubic
      [CpuBase EXCEPT !.I = 4,
                      !.params = << Header0(Fx(2), Fx(1), KZero, 600000),
                                    Header1(FxOne, 0, FxOne),
                                    RowMatrix(500000, -500000, -500000, -FxOne, FxOne) >>],
      \* rolling shutter: one matrix per output row, edge repeat
      [CpuBase EXCEPT !.params =
          << Header0(Fx(2), Fx(1), KZero, 0), Header1(FxOne, FxOne, FxOne) >>
          \o [r \in 1..CpuRows |->
                RowMatrix(500000, -500000, -500000 + 250000 * r, 0, FxOne)]],
      \* partial lens correction, wide enough for the inversion to fail at the
      \* pixels far from the output centre
      [CpuBase EXCEPT !.params = << Header0(Fx(1), Fx(1), KFold, 0),
                                    Header1(500000, 0, FxOne),
                                    RowMatrix(500000, -500000, -500000, 0, FxOne) >>],
      \* the two header rows and no matrix
      [CpuBase EXCEPT !.params = << Header0(Fx(2), Fx(1), KZero, 0),
                                    Header1(FxOne, 0, FxOne) >>],
      \* partial lens correction with a lens that cannot be inverted everywhere,
      \* edge mirror, Lanczos4, two-byte pixels
      [CpuBase EXCEPT !.I = 8, !.count = 2, !.stride = 6, !.output_stride = 5,
                      !.pixels = [k \in 0..17 |-> (20 + 17 * k) % 256],
                      !.params = << Header0(Fx(2), Fx(1), KFold, 0),
                                    Header1(500000, Fx(2), FxOne),
                                    RowMatrix(500000, -500000, -500000, 0, FxOne) >>] }

\* out_pixels.len() and the chunking of lines 177-178
CpuOutLen(in) == in.output_stride * in.output_height

CpuRowTasks(in) == 0..(NumChunks(CpuOutLen(in), in.output_stride) - 1)

RowLen(in, y) == MinI(in.output_stride, CpuOutLen(in) - y * in.output_stride)

ChunksInRow(in, y) == NumChunks(RowLen(in, y), BytesPerPixel(in))

InitCpu ==
    /\ NewIdle
    /\ GpuIdle
    /\ PointsIdle
    /\ SampleIdle
    /\ EdgeIdle
    /\ TapsIdle
    /\ cin \in CpuCases
    /\ cout = [k \in 0..(CpuOutLen(cin) - 1) |-> 99]
    /\ row_next = [y \in CpuRowTasks(cin) |-> 0]
    /\ branch_log = [y \in CpuRowTasks(cin) |-> [x \in 0..(cin.output_width - 1) |-> "none"]]
    /\ pix_log = [y \in CpuRowTasks(cin) |-> [x \in 0..(cin.output_width - 1) |-> <<>>]]

\* cpu_undistort.rs:177-279  the task of row y handles its next pixel chunk
RowStep(y) ==
    /\ y \in DOMAIN row_next
    /\ row_next[y] < ChunksInRow(cin, y)
    /\ LET x == row_next[y]
       IN /\ cout' = ProcessChunk(cout, cin, y, x)
          /\ branch_log' =
                IF y < cin.output_height /\ x < cin.output_width
                  THEN [branch_log EXCEPT ![y][x] = CpuPixel(cin, x, y).branch]
                  ELSE branch_log
          /\ pix_log' =
                IF y < cin.output_height /\ x < cin.output_width
                  THEN [pix_log EXCEPT ![y][x] = PixelUse(cin, x, y)]
                  ELSE pix_log
          /\ row_next' = [row_next EXCEPT ![y] = x + 1]
    /\ UNCHANGED <<cin, notCpuVars>>

NextCpu == \E y \in 0..CpuRows : RowStep(y)

SpecCpu == InitCpu /\ [][NextCpu]_vars

AllRowsDone == \A y \in DOMAIN row_next : row_next[y] = ChunksInRow(cin, y)

\* the rows processed one after the other, each from its first chunk to its last
RECURSIVE SequentialFrom(_, _, _, _)
SequentialFrom(out, in, y, x) ==
    IF y \notin CpuRowTasks(in) THEN out
    ELSE IF x >= ChunksInRow(in, y) THEN SequentialFrom(out, in, y + 1, 0)
    ELSE SequentialFrom(ProcessChunk(out, in, y, x), in, y, x + 1)

-----------------------------------------------------------------------------
(* undistort_points, cpu_undistort.rs:284-325.  A 3x3 matrix is the tuple   *)
(* of its entries row by row.                                               *)

Identity3 == <<FxOne, 0, 0, 0, FxOne, 0, 0, 0, FxOne>>

\* a quarter turn about the optical axis
QuarterTurn == <<0, -FxOne, 0, FxOne, 0, 0, 0, 0, FxOne>>

MatMul(a, b) ==
    [e \in 1..9 |->
        LET r == (e - 1) \div 3
            c == (e - 1) % 3
        IN MulFx(a[3 * r + 1], b[c + 1]) + MulFx(a[3 * r + 2], b[c + 4])
             + MulFx(a[3 * r + 3], b[c + 7])]

MatVec(m, v) ==
    [r \in 1..3 |-> MulFx(m[3 * r - 2], v[1]) + MulFx(m[3 * r - 1], v[2])
                      + MulFx(m[3 * r], v[3])]

\* cpu_undistort.rs:322  -1000000.0 lies below the range of the fixed-point
\* integers and is held as the lowest value of that range
SentinelCoord == -2147483647

\* cpu_undistort.rs:322  (-1000000.0, -1000000.0)
Sentinel == <<SentinelCoord, SentinelCoord>>

PointsIn == { <<Fx(2), Fx(1)>>, <<Fx(3), Fx(1)>>, <<Fx(1), Fx(1)>>, <<600000, 1400000>> }

RECURSIVE SeqsUpTo(_, _)
SeqsUpTo(S, n) ==
    IF n = 0 THEN { <<>> }
    ELSE LET shorter == SeqsUpTo(S, n - 1)
         IN shorter \cup { Append(q, e) : q \in shorter, e \in S }

\* the remaining arguments: entry point, rotation, p, rot_per_point
\* (<<>> for None, else <<the vector>>) and params.lens_correction_amount
\* (<<>> for None)
PointOptions ==
    { [entry |-> "undistort_points", rotation |-> Identity3, p |-> <<>>,
       rot_per_point |-> <<>>, amount |-> <<>>],
      [entry |-> "undistort_points", rotation |-> QuarterTurn, p |-> <<QuarterTurn>>,
       rot_per_point |-> << <<Identity3, QuarterTurn>> >>, amount |-> <<500000>>],
      [entry |-> "undistort_points_with_rolling_shutter", rotation |-> QuarterTurn,
       p |-> <<Identity3>>,
       rot_per_point |-> << <<QuarterTurn, Identity3, QuarterTurn, Identity3>> >>,
       amount |-> <<FxOne>>] }

\* cpu_undistort.rs:293-300
PointsRR(in) == IF in.p # <<>> THEN MatMul(in.p[1], in.rotation) ELSE in.rotation

\* cpu_undistort.rs:306  rot_per_point.as_ref().and_then(|v| v.get(index)).unwrap_or(&rr)
PointRot(in, index) ==
    IF in.rot_per_point # <<>> /\ index < Len(in.rot_per_point[1])
      THEN in.rot_per_point[1][index + 1]
      ELSE PointsRR(in)

\* cpu_undistort.rs:304  world point
WorldPoint(in, pi) == << DivFx(pi[1] - in.c[1], in.f[1]), DivFx(pi[2] - in.c[2], in.f[2]) >>

\* cpu_undistort.rs:311  (pr[0] / pr[2], pr[1] / pr[2])
Reproject(pr) == << DivFx(pr[1], pr[3]), DivFx(pr[2], pr[3]) >>

\* cpu_undistort.rs:313-319  lens distortion added back for a partial correction
Relens(in, pt) ==
    IF in.amount # <<>> /\ in.amount[1] < FxOne
      THEN distort_point(WorldPoint(in, pt), in.f, in.c, in.k, in.amount[1])
      ELSE pt

\* cpu_undistort.rs:308-323  the closure's result from the inversion's
PointFrom(in, index, u) ==
    IF u.ok
      THEN Relens(in, Reproject(MatVec(PointRot(in, index), <<u.pt[1], u.pt[2], FxOne>>)))
      ELSE Sentinel

\* cpu_undistort.rs:304-323  the closure applied to (index, pi)
PointResult(in, index) ==
    PointFrom(in, index, undistort_point(WorldPoint(in, in.distorted[index + 1]), in.k, 0))

\* a filter_map in place of map: a failed point is dropped from the output
MapStep_DropFailed(out, in, index) ==
    IF PointResult(in, index) = Sentinel THEN out ELSE Append(out, PointResult(in, index))

\* cpu_undistort.rs:303,324  one element of iter().enumerate().map(..).collect()
MapStep(out, in, index) == Append(out, PointResult(in, index))

InitPoints ==
    /\ NewIdle
    /\ GpuIdle
    /\ CpuIdle
    /\ SampleIdle
    /\ EdgeIdle
    /\ TapsIdle
    /\ \E d \in SeqsUpTo(PointsIn, MaxPoints), o \in PointOptions :
        pin = [ entry |-> o.entry, distorted |-> d, f |-> <<Fx(2), Fx(2)>>,
                c |-> <<Fx(1), Fx(1)>>, k |-> KFold, rotation |-> o.rotation,
                p |-> o.p, rot_per_point |-> o.rot_per_point, amount |-> o.amount ]
    /\ pout = <<>>
    /\ pidx = 0
    /\ pdone = FALSE

\* cpu_undistort.rs:285  the rolling-shutter entry returns Vec::new() for no points
EmptyReturn ==
    /\ ~pdone
    /\ pin.entry = "undistort_points_with_rolling_shutter"
    /\ pin.distorted = <<>>
    /\ pdone' = TRUE
    /\ UNCHANGED <<pin, pout, pidx, notPointsVars>>

\* cpu_undistort.rs:303-323  the iterator yields the next point
MapPoint ==
    /\ ~pdone
    /\ pidx < Len(pin.distorted)
    /\ pout' = MapStep(pout, pin, pidx)
    /\ pidx' = pidx + 1
    /\ UNCHANGED <<pin, pdone, notPointsVars>>

\* cpu_undistort.rs:324  collect() once the iterator is exhausted
Collect ==
    /\ ~pdone
    /\ ~(pin.entry = "undistort_points_with_rolling_shutter" /\ pin.distorted = <<>>)
    /\ pidx = Len(pin.distorted)
    /\ pdone' = TRUE
    /\ UNCHANGED <<pin, pout, pidx, notPointsVars>>

NextPoints == EmptyReturn \/ MapPoint \/ Collect

SpecPoints == InitPoints /\ [][NextPoints]_vars

-----------------------------------------------------------------------------
(* The coordinate split and coefficient fetch of lines 243-250 applied to   *)
(* one fixed-point coordinate (SpecSample)                                  *)

\* coordinates near the ends of the i32 range
FarCoords == {-2147483616, -2147483601, 2147483616, 2147483647}

InitSample ==
    /\ NewIdle
    /\ GpuIdle
    /\ CpuIdle
    /\ PointsIdle
    /\ EdgeIdle
    /\ TapsIdle
    /\ sk \in {2, 4, 8}
    /\ sc0 \in (-SampleRange)..SampleRange \cup FarCoords
    /\ sfetch = <<>>

\* cpu_undistort.rs:246-250
FetchCoeffs ==
    /\ sfetch = <<>>
    /\ sfetch' = [ s |-> IntegerPart(sc0), phase |-> Phase(sc0),
                   start |-> CoeffsStart(sk, sc0), coeffs |-> CoeffsAt(sk, sc0) ]
    /\ UNCHANGED <<sk, sc0, notSampleVars>>

NextSample == FetchCoeffs

SpecSample == InitSample /\ [][NextSample]_vars

-----------------------------------------------------------------------------
(* The edge policy of lines 222-238 applied to one sample position (SpecEdge) *)

EdgeCoords == { k * 250000 : k \in (-8)..(4 * EdgeSpan) }

\* <<width, height>> of the source frame
EdgeFrames == { <<8, 7>>, <<4, 8>> }

\* background_mode: transparent, edge repeat, a value between the two
\* windows of lines 165-166, edge mirror
EdgeModes == { 0, FxOne, 1500000, 2 * FxOne }

InitEdge ==
    /\ NewIdle
    /\ GpuIdle
    /\ CpuIdle
    /\ PointsIdle
    /\ SampleIdle
    /\ TapsIdle
    /\ \E fr \in EdgeFrames, mode \in EdgeModes :
         ein = [ width |-> fr[1], height |-> fr[2],
                 params |-> << Header0(Fx(2), Fx(1), KZero, 0),
                               Header1(FxOne, mode, FxOne) >> ]
    /\ ept \in EdgeCoords \X EdgeCoords
    /\ eout = <<>>

\* cpu_undistort.rs:222-238
ApplyEdgePolicy ==
    /\ eout = <<>>
    /\ eout' = EdgePolicy(ein, ept)
    /\ UNCHANGED <<ein, ept, notEdgeVars>>

NextEdge == ApplyEdgePolicy

SpecEdge == InitEdge /\ [][NextEdge]_vars

-----------------------------------------------------------------------------
(* The tap loops of lines 252-273 for one sample (SpecTaps): which taps read *)
(* the source, at which bytes, and which take the background colour.        *)
(* tin.overflow_checks tells whether the build panics on integer overflow   *)
(* (the debug profile) or wraps (the release profile).                      *)

\* width, height, stride and bytes_per_pixel of the source; pixels.len() is
\* stride * height
TapFrames ==
    { [width |-> 2, height |-> 2, stride |-> 2, bpp |-> 1],
      [width |-> 3, height |-> 2, stride |-> 7, bpp |-> 2],
      [width |-> 1, height |-> 3, stride |-> 1, bpp |-> 1] }

\* integer parts of the fixed-point coordinates: around the frame and far from it
TapInts == (-8)..MaxTapCoord \cup {-100000, 100000}

\* cpu_undistort.rs:246-247
TapSx(in) == IntegerPart(in.sx0)
TapSy(in) == IntegerPart(in.sy0)

\* cpu_undistort.rs:253  (sy * stride as i32 + sx * bytes_per_pixel as i32) as isize
SrcIndex(in) == TapSy(in) * in.stride + TapSx(in) * in.bpp

\* cpu_undistort.rs:256  sy + yp >= 0 && sy + yp < height as i32
RowInside(in, yp) == TapSy(in) + yp >= 0 /\ TapSy(in) + yp < in.height

\* cpu_undistort.rs:259  sx + xp >= 0 && sx + xp < width as i32
ColInside(in, xp) == TapSx(in) + xp >= 0 /\ TapSx(in) + xp < in.width

\* cpu_undistort.rs:260  src_index as usize + (bytes_per_pixel * xp as usize):
\* a negative src_index casts to 2^64 + src_index, and adding a positive
\* offset that brings the sum to 2^64 or more overflows usize
IndexOverflows(src_index, offset) == src_index < 0 /\ offset > 0 /\ src_index + offset >= 0

InitTaps ==
    /\ NewIdle
    /\ GpuIdle
    /\ CpuIdle
    /\ PointsIdle
    /\ SampleIdle
    /\ EdgeIdle
    /\ \E fr \in TapFrames, I \in {2, 4, 8}, sx \in TapInts, sy \in TapInts,
          checks \in BOOLEAN :
         tin = [ I |-> I, width |-> fr.width, height |-> fr.height,
                 stride |-> fr.stride, bpp |-> fr.bpp,
                 sx0 |-> sx * INTER_TAB_SIZE + 5, sy0 |-> sy * INTER_TAB_SIZE + 27,
                 overflow_checks |-> checks ]
    /\ tpos = <<0, 0>>
    /\ tsrc = SrcIndex(tin)
    /\ treads = {}
    /\ tbg = {}
    /\ tout = "running"

\* cpu_undistort.rs:256,270-272  the row lies outside the source: bg for
\* every tap of the row, src_index += stride
RowOutside ==
    /\ tout = "running"
    /\ tpos[1] < tin.I
    /\ tpos[2] = 0
    /\ ~RowInside(tin, tpos[1])
    /\ tbg' = tbg \cup { <<tpos[1], xp>> : xp \in 0..(tin.I - 1) }
    /\ tsrc' = tsrc + tin.stride
    /\ tpos' = <<tpos[1] + 1, 0>>
    /\ UNCHANGED <<tin, treads, tout, notTapVars>>

\* cpu_undistort.rs:259-261  the tap lies inside the source: the pixel is
\* read at src_index + bytes_per_pixel * xp, unless computing the index panics
TapInside ==
    /\ tout = "running"
    /\ tpos[1] < tin.I
    /\ tpos[2] < tin.I
    /\ RowInside(tin, tpos[1])
    /\ ColInside(tin, tpos[2])
    /\ IF /\ tin.overflow_checks
          /\ \/ IndexOverflows(tsrc, tin.bpp * tpos[2])
             \/ IndexOverflows(tsrc, tin.bpp * (tpos[2] + 1))
         THEN /\ tout' = "panic"
              /\ UNCHANGED <<tpos, treads>>
         ELSE /\ treads' = treads \cup
                    { [ yp |-> tpos[1], xp |-> tpos[2],
                        first |-> tsrc + tin.bpp * tpos[2],
                        last |-> tsrc + tin.bpp * (tpos[2] + 1) ] }
              /\ tpos' = <<tpos[1], tpos[2] + 1>>
              /\ UNCHANGED tout
    /\ UNCHANGED <<tin, tsrc, tbg, notTapVars>>

\* cpu_undistort.rs:262-264  the tap lies left or right of the source: bg
TapOutside ==
    /\ tout = "running"
    /\ tpos[1] < tin.I
    /\ tpos[2] < tin.I
    /\ RowInside(tin, tpos[1])
    /\ ~ColInside(tin, tpos[2])
    /\ tbg' = tbg \cup { tpos }
    /\ tpos' = <<tpos[1], tpos[2] + 1>>
    /\ UNCHANGED <<tin, tsrc, treads, tout, notTapVars>>

\* cpu_undistort.rs:269,273  end of the inner loop: src_index += stride
RowEnd ==
    /\ tout = "running"
    /\ tpos[1] < tin.I
    /\ tpos[2] = tin.I
    /\ tsrc' = tsrc + tin.stride
    /\ tpos' = <<tpos[1] + 1, 0>>
    /\ UNCHANGED <<tin, treads, tbg, tout, notTapVars>>

\* cpu_undistort.rs:274  the loops are over, the sum is written
TapsDone ==
    /\ tout = "running"
    /\ tpos[1] = tin.I
    /\ tout' = "done"
    /\ UNCHANGED <<tin, tpos, tsrc, treads, tbg, notTapVars>>

NextTaps == RowOutside \/ TapInside \/ TapOutside \/ RowEnd \/ TapsDone

SpecTaps == InitTaps /\ [][NextTaps]_vars
-----------------------------------------------------------------------------
\* C1: under concurrent WgpuWrapper::new calls on an uninitialized ADAPTER the
\* adapter is requested and stored at most once in the process.
C1_AdapterStoredAtMostOnce == adapterWrites <= 1

\* C2: new yields None whenever height < 4, output_height < 4, stride < 1,
\* width > 8192 or output_width > 8192, whatever the other arguments are and
\* whether or not an adapter is available.
C2_RejectedDimsYieldNone ==
    \A t \in Threads :
        ( /\ npc[t] # "start"
          /\ \/ nargs[t].height < 4
             \/ nargs[t].output_height < 4
             \/ nargs[t].stride < 1
             \/ nargs[t].width > 8192
             \/ nargs[t].output_width > 8192 )
        => (npc[t] = "done" /\ nresult[t] = "None")

\* a request with stride 0 and everything else valid was refused while the
\* adapter was available and served another thread
C2_Witness ==
    \E t, u \in Threads :
        /\ npc[t] = "done" /\ nresult[t] = "None"
        /\ nargs[t].stride = 0 /\ nargs[t].height = 4 /\ nargs[t].width = 8192
        /\ ADAPTER = "Some" /\ nresult[u] = "Some"

-----------------------------------------------------------------------------
(* Claims about undistort_image, checked under SpecGpu *)

\* sizes the engine expects, from the arguments it was constructed with
ExpectedInSize == eng.args.stride * eng.args.height
ExpectedOutSize == eng.args.output_stride * eng.args.output_height
ExpectedParamsSize == 9 * (eng.args.height + 2) * 4
GivenParamsSize == Len(itm) * 9 * 4

\* C3 (as stated): any mismatch between the actual and the expected size of
\* the input, output or parameter buffer causes the frame to be skipped, with
\* nothing uploaded, drawn or read back.
C3_AnyMismatchSkips ==
    ( /\ calls > 0
      /\ \/ BufLen(pixels) # ExpectedInSize
         \/ BufLen(out_entry) # ExpectedOutSize
         \/ GivenParamsSize # ExpectedParamsSize )
    => (outcome = "skipped" /\ steps = <<>>)

\* C3 (amended): the frame is skipped, with nothing uploaded, drawn or read
\* back, exactly when the input or output buffer size differs from the
\* expected one or the parameter buffer is larger than the parameter buffer
\* size; a smaller parameter buffer is processed.
C3_MismatchOrOversizedParamsSkips ==
    calls > 0 =>
        /\ ( \/ BufLen(pixels) # ExpectedInSize
             \/ BufLen(out_entry) # ExpectedOutSize
             \/ GivenParamsSize > ExpectedParamsSize )
           <=> outcome = "skipped"
        /\ outcome = "skipped" => (steps = <<>> /\ gpc = "idle")
        /\ outcome # "skipped" => steps # <<>>

\* a call with too many parameter rows was skipped, after an earlier call
\* with fewer rows than the buffer holds had been processed
C3_Witness ==
    /\ outcome = "skipped"
    /\ BufLen(pixels) = ExpectedInSize
    /\ BufLen(out_entry) = ExpectedOutSize
    /\ GivenParamsSize > ExpectedParamsSize
    /\ globals.num_params = 3
    /\ calls = 2 /\ skips = 1

\* C4: whenever undistort_image reports a failure (a size mismatch or a failed
\* map of the staging buffer), no byte of output_pixels was modified by the call.
C4_FailureLeavesOutputUntouched ==
    outcome \in {"skipped", "map_failed"} => output_pixels = out_entry

\* the map failed after the device had rendered the frame into the staging buffer
C4_Witness ==
    /\ outcome = "map_failed"
    /\ \E k \in DOMAIN staging_buffer : staging_buffer[k] # 0
    /\ BufLen(output_pixels) > 0

\* C5: a call skipped for a size mismatch leaves the engine state unchanged
\* (globals with num_params and background, the uploaded globals and
\* parameter rows, the textures, the staging buffer and its mapping state) and
\* leaves the engine idle, ready for the next call.
C5_SkippedCallLeavesEngine ==
    [][ (calls' = calls + 1 /\ outcome' = "skipped")
          => (UNCHANGED <<eng, engineVars>> /\ gpc' = "idle" /\ staging_map' = "unmapped")
      ]_vars

\* a valid call completed after a skipped one, and the engine holds what the
\* valid call uploaded
C5_Witness ==
    /\ outcome = "ok"
    /\ skips = 1 /\ calls = 2
    /\ globals.num_params = Len(itm)
    /\ params_buffer = WriteParams(params_buffer, itm)

\* C6: during and after a successful readback every row i of the destination
\* that has been copied holds, for every byte j of the row,
\* output_pixels[i*out_stride + j] = staging[i*padded_out_stride + j],
\* on the fast path and on the per-row path, in whatever order the rows ran.
C6_ReadbackPreservesRows ==
    (outcome = "ok" \/ gpc = "mapped") =>
        \A i \in 0..(eng.args.output_height - 1) :
            i \notin copy_pending =>
                \A j \in 0..(eng.args.output_stride - 1) :
                    output_pixels[i * eng.args.output_stride + j]
                        = staging_buffer[i * eng.padded_out_stride + j]

\* a per-row readback completed and changed the destination
C6_Witness ==
    /\ outcome = "ok"
    /\ eng.padded_out_stride # eng.args.output_stride
    /\ output_pixels # out_entry
    /\ \E i \in 1..(eng.args.output_height - 1) :
         output_pixels[i * eng.args.output_stride] # 0

-----------------------------------------------------------------------------
(* Claims about undistort_image_cpu, checked under SpecCpu *)

\* out_pixels as the caller hands it over
CpuInitialOut == [k \in 0..(CpuOutLen(cin) - 1) |-> 99]

\* C7: the row tasks of undistort_image_cpu are independent: a step of the
\* task of row y changes only bytes of output row y, and once all row tasks
\* have finished, in whatever order and interleaving they ran, out_pixels
\* equals the buffer produced by processing the rows one after the other.
C7_RowsIndependent ==
    /\ [](AllRowsDone => cout = SequentialFrom(CpuInitialOut, cin, 0, 0))
    /\ [][ \A k \in DOMAIN cout :
             cout'[k] # cout[k] =>
                \E y \in DOMAIN row_next :
                    row_next'[y] # row_next[y] /\ k \div cin.output_stride = y
       ]_vars

\* all row tasks have finished and at least two rows were written
C7_Witness ==
    /\ cin # NoCall
    /\ AllRowsDone
    /\ \E k1, k2 \in DOMAIN cout :
         /\ k1 \div cin.output_stride # k2 \div cin.output_stride
         /\ cout[k1] # 99 /\ cout[k2] # 99

\* the radius test of the claim on the homography result h
BeyondRadius(h, r_limit) ==
    /\ h.w > 0
    /\ r_limit > 0
    /\ MulFx(DivFx(h.x, h.w), DivFx(h.x, h.w)) + MulFx(DivFx(h.y, h.w), DivFx(h.y, h.w))
         > MulFx(r_limit, r_limit)

\* the output pixel (x, y) holds the background colour
HoldsBackground(x, y) ==
    \A ch \in 1..cin.count :
        cout[y * cin.output_stride + x * cin.count + (ch - 1)]
            = FromFloat(cin.bg, cin.count)[ch]

\* C9: a pixel is written with the background colour by the radius branch
\* exactly when w > 0, r_limit > 0 and posx^2 + posy^2 > r_limit^2; with a
\* radius limit of 0 no pixel takes the radius branch.
C9_RadiusLimit ==
    \A y \in DOMAIN branch_log :
        \A x \in DOMAIN branch_log[y] :
            branch_log[y][x] # "none" =>
                /\ branch_log[y][x] = "radius_bg"
                     <=> BeyondRadius(PixelHomography(cin, x, y), cin.params[1][9])
                /\ branch_log[y][x] = "radius_bg" => HoldsBackground(x, y)
                /\ cin.params[1][9] = 0 => branch_log[y][x] # "radius_bg"

\* with a positive radius limit one pixel of the frame was forced to the
\* background and another, with w > 0, was sampled
C9_Witness ==
    /\ cin # NoCall
    /\ cin.params[1][9] > 0
    /\ \E y1, y2 \in DOMAIN branch_log :
         \E x1, x2 \in 0..(cin.output_width - 1) :
            /\ branch_log[y1][x1] = "radius_bg"
            /\ HoldsBackground(x1, y1)
            /\ branch_log[y2][x2] = "sampled"

-----------------------------------------------------------------------------
(* Claim about undistort_points, checked under SpecPoints *)

\* a point whose inversion succeeds
GoodPoint == <<Fx(1), Fx(1)>>

\* the call with every point but the one at position j replaced by GoodPoint
Alone(in, j) ==
    [in EXCEPT !.distorted =
        [i \in 1..Len(in.distorted) |-> IF i = j THEN in.distorted[i] ELSE GoodPoint]]

InversionFails(in, j) == ~undistort_point(WorldPoint(in, in.distorted[j]), in.k, 0).ok

\* C8: undistort_points returns a sequence of the length and order of its
\* input, the empty one included; the element at the index of a point whose
\* inversion fails is the sentinel, and every element is the value its point
\* yields when all other points succeed.
C8_SameLengthOrderAndSentinel ==
    /\ Len(pout) = pidx
    /\ pdone =>
        /\ Len(pout) = Len(pin.distorted)
        /\ \A j \in 1..Len(pin.distorted) :
            /\ InversionFails(pin, j) <=> pout[j] = Sentinel
            /\ pout[j] = PointResult(Alone(pin, j), j - 1)

\* a batch of three points returned with the sentinel in the middle only
C8_Witness ==
    /\ pdone
    /\ Len(pin.distorted) = 3
    /\ InversionFails(pin, 2)
    /\ pout[2] = Sentinel
    /\ pout[1] # Sentinel /\ pout[3] # Sentinel
    /\ pin.distorted[1] # pin.distorted[3]

-----------------------------------------------------------------------------
(* Claim about the bilinear bank of COEFFS, checked under SpecSample *)

\* C10: the first 64 entries of COEFFS hold for every phase p in 0..31 the
\* pair [1 - p/32, p/32], so phase 0 is [1, 0], phase 16 is [0.5, 0.5] and
\* each pair sums to 1; the bilinear kernel fetches that pair for the phase
\* of its coordinate.
C10_BilinearBank ==
    /\ \A p \in 0..31 :
         /\ COEFFS[2 * p + 1] = 1000000 - p * 31250
         /\ COEFFS[2 * p + 2] = p * 31250
         /\ COEFFS[2 * p + 1] + COEFFS[2 * p + 2] = 1000000
    /\ COEFFS[1] = 1000000 /\ COEFFS[2] = 0
    /\ COEFFS[33] = 500000 /\ COEFFS[34] = 500000
    /\ (sk = 2 /\ sfetch # <<>>) =>
         /\ sfetch.coeffs[0] = 1000000 - (sc0 % 32) * 31250
         /\ sfetch.coeffs[1] = (sc0 % 32) * 31250

\* the bilinear kernel fetched the midpoint pair for a negative coordinate
C10_Witness ==
    /\ sk = 2
    /\ sfetch # <<>>
    /\ sc0 < 0
    /\ sc0 % 32 = 16
    /\ sfetch.coeffs[0] = 500000 /\ sfetch.coeffs[1] = 500000

-----------------------------------------------------------------------------
(* Claims about the positions and parameter rows a pixel uses (SpecCpu) *)

\* the inversion of line 201 fails for the output pixel (x, y)
InversionFailsAt(in, x, y) ==
    ~undistort_point(ToLens(x, y, F2(in), OutC(in)), LensK(in),
                     LensCorrectionAmount(in)).ok

\* C11: with lens_correction_amount < 1, a pixel (x, y) whose distortion
\* inversion fails hands its original position (x, y) to the row homography.
C11_FailedInversionKeepsPosition ==
    \A y \in DOMAIN pix_log :
        \A x \in DOMAIN pix_log[y] :
            ( /\ pix_log[y][x] # <<>>
              /\ cin.params[2][1] < 1000000
              /\ InversionFailsAt(cin, x, y) )
            => pix_log[y][x].pt = <<x * 1000000, y * 1000000>>

\* C12: for a parameter buffer of at least two rows, the middle matrix and
\* the matrix applied to the pixel are rows 2 .. len-1 of the buffer, never a
\* header row and never past the end.
C12_RowsAreMatrices ==
    \A y \in DOMAIN pix_log :
        \A x \in DOMAIN pix_log[y] :
            (pix_log[y][x] # <<>> /\ Len(cin.params) >= 2) =>
                /\ pix_log[y][x].row >= 2
                /\ pix_log[y][x].row <= Len(cin.params) - 1
                /\ pix_log[y][x].middle # -1 =>
                     /\ pix_log[y][x].middle >= 2
                     /\ pix_log[y][x].middle <= Len(cin.params) - 1

-----------------------------------------------------------------------------
(* Further claims about undistort_image, checked under SpecGpu *)

\* the pixel buffers of the call have the sizes the engine expects
PixelSizesMatch ==
    /\ calls > 0
    /\ BufLen(pixels) = ExpectedInSize
    /\ BufLen(out_entry) = ExpectedOutSize

\* C13 (as stated): for an engine built with any valid height and
\* output_height, a parameter buffer of 2 + output_height rows passes the
\* parameter-size validation and the frame is processed, not skipped.
C13_OutputHeightRowsAccepted ==
    (PixelSizesMatch /\ Len(itm) = 2 + eng.args.output_height)
        => (outcome # "skipped" /\ steps # <<>>)

\* C13 (amended): a parameter buffer of 2 + height rows, height being the
\* input height, passes the validation and the frame is processed; one of
\* 2 + output_height rows is processed exactly when output_height <= height.
C13_InputHeightRowsAccepted ==
    PixelSizesMatch =>
        /\ Len(itm) = 2 + eng.args.height => (outcome # "skipped" /\ steps # <<>>)
        /\ Len(itm) = 2 + eng.args.output_height =>
             ( (outcome # "skipped" /\ steps # <<>>)
                 <=> eng.args.output_height <= eng.args.height )

\* on an engine with fewer output rows than input rows a frame with
\* 2 + output_height parameter rows was read back
C13_Witness ==
    /\ PixelSizesMatch
    /\ eng.args.output_height < eng.args.height
    /\ Len(itm) = 2 + eng.args.output_height
    /\ outcome = "ok"
    /\ globals.num_params = 2 + eng.args.output_height

\* the steps of a call that is read back, and of one whose map fails
StepsOfReadback ==
    << "write_params", "write_globals", "write_texture", "draw",
       "copy_texture_to_buffer", "submit", "map_async", "poll", "mapped",
       "copy", "unmap" >>

StepsOfFailedMap ==
    << "write_params", "write_globals", "write_texture", "draw",
       "copy_texture_to_buffer", "submit", "map_async", "poll", "map_failed" >>

IsPrefix(s, t) == Len(s) <= Len(t) /\ \A i \in 1..Len(s) : s[i] = t[i]

-----------------------------------------------------------------------------
(* Claim about the coordinate split, checked under SpecSample *)

\* the first entry of the bank of kernel size I
BankBase(I) == IF I = 2 THEN 0 ELSE IF I = 4 THEN 64 ELSE 192

\* C17: the split of a fixed-point coordinate s0, negative ones included,
\* into s = s0 >> 5 and phase = s0 & 31 satisfies s*32 + phase = s0 and
\* 0 <= phase <= 31; the I coefficients fetched are
\* COEFFS[base + phase*I .. base + phase*I + I) with base 0, 64, 192 for
\* I = 2, 4, 8, inside the bank of that kernel and inside the 448 entries.
C17_SplitAndFetch ==
    sfetch # <<>> =>
        /\ sfetch.s * 32 + sfetch.phase = sc0
        /\ sfetch.phase >= 0 /\ sfetch.phase <= 31
        /\ sfetch.start = BankBase(sk) + sfetch.phase * sk
        /\ sfetch.start >= BankBase(sk)
        /\ sfetch.start + sk <= BankBase(sk) + 32 * sk
        /\ BankBase(sk) + 32 * sk <= 448
        /\ Len(COEFFS) = 448
        /\ DOMAIN sfetch.coeffs = 0..(sk - 1)
        /\ \A t \in 0..(sk - 1) :
             sfetch.coeffs[t] = COEFFS[BankBase(sk) + sfetch.phase * sk + t + 1]

\* the coordinate -1 was split for the 8-tap kernel: integer part -1, phase
\* 31, the last eight entries of the table
C17_Witness ==
    /\ sk = 8
    /\ sc0 = -1
    /\ sfetch # <<>>
    /\ sfetch.s = -1
    /\ sfetch.phase = 31
    /\ sfetch.start + sk = 448

-----------------------------------------------------------------------------
(* Claim about the edge policy, checked under SpecEdge *)

\* the sample position lies inside the source frame [0,width) x [0,height)
InsideFrame ==
    /\ ept[1] >= 0 /\ ept[1] < ein.width * 1000000
    /\ ept[2] >= 0 /\ ept[2] < ein.height * 1000000

\* the background mode selects edge repeat, edge mirror
RepeatMode == ein.params[2][2] > 900000 /\ ein.params[2][2] < 1100000
MirrorMode == ~RepeatMode /\ ein.params[2][2] > 1900000 /\ ein.params[2][2] < 2100000

\* the coordinate rounded to the nearest integer, halves away from zero
Rounded(v) == IF v < 0 THEN -((-v + 500000) \div 1000000) ELSE (v + 500000) \div 1000000

\* C15 (as stated): for every background mode, a sample position inside
\* [0,width) x [0,height) is passed unchanged to the interpolation step.
C15_InsideFrameUnchanged ==
    (eout # <<>> /\ InsideFrame) => eout = ept

\* C15 (amended): the edge policy leaves a coordinate unchanged when, under
\* edge repeat, it lies in [0, size-1] and when, under edge mirror, its
\* rounded value lies in [3, size-3], size being the width for x and the
\* height for y; under any other background mode the position is unchanged.
C15_UnchangedRegions ==
    eout # <<>> =>
        /\ RepeatMode =>
             /\ (ept[1] >= 0 /\ ept[1] <= (ein.width - 1) * 1000000) => eout[1] = ept[1]
             /\ (ept[2] >= 0 /\ ept[2] <= (ein.height - 1) * 1000000) => eout[2] = ept[2]
        /\ MirrorMode =>
             /\ (Rounded(ept[1]) >= 3 /\ Rounded(ept[1]) <= ein.width - 3)
                    => eout[1] = ept[1]
             /\ (Rounded(ept[2]) >= 3 /\ Rounded(ept[2]) <= ein.height - 3)
                    => eout[2] = ept[2]
        /\ (~RepeatMode /\ ~MirrorMode) => eout = ept

\* under edge mirror a position at least 3 pixels from every border went
\* through unchanged
C15_Witness ==
    /\ eout # <<>>
    /\ MirrorMode
    /\ InsideFrame
    /\ Rounded(ept[1]) >= 3 /\ Rounded(ept[1]) <= ein.width - 3
    /\ Rounded(ept[2]) >= 3 /\ Rounded(ept[2]) <= ein.height - 3
    /\ eout = ept

-----------------------------------------------------------------------------
(* Claim about the source reads of one sample, checked under SpecTaps *)

\* the tap (yp, xp) of the sample falls on a source pixel
TapOnSource(yp, xp) ==
    /\ (tin.sx0 \div 32) + xp >= 0 /\ (tin.sx0 \div 32) + xp < tin.width
    /\ (tin.sy0 \div 32) + yp >= 0 /\ (tin.sy0 \div 32) + yp < tin.height

\* C16: with pixels.len() = stride*height and stride >= width*bpp, for every
\* sample position and kernel size the taps with 0 <= sx+xp < width and
\* 0 <= sy+yp < height, and only they, read the source, at the bytes
\* [(sy+yp)*stride + (sx+xp)*bpp, +bpp) inside the buffer; every other tap
\* takes the background colour, and the loops run to their end.
C16_TapsReadInsideSource ==
    /\ \A r \in treads :
         /\ TapOnSource(r.yp, r.xp)
         /\ r.first = ((tin.sy0 \div 32) + r.yp) * tin.stride
                        + ((tin.sx0 \div 32) + r.xp) * tin.bpp
         /\ r.last = r.first + tin.bpp
         /\ r.first >= 0
         /\ r.last <= tin.stride * tin.height
    /\ \A t \in tbg : ~TapOnSource(t[1], t[2])
    /\ tout # "panic"
    /\ tout = "done" =>
         \A yp, xp \in 0..(tin.I - 1) :
            IF TapOnSource(yp, xp)
              THEN \E r \in treads : r.yp = yp /\ r.xp = xp
              ELSE <<yp, xp>> \in tbg

\* the same statement for builds that wrap on overflow
TapsReadInsideSourceWhenWrapping ==
    tin.overflow_checks \/ C16_TapsReadInsideSource

====
